---- MODULE Spec2Model ----
(***************************************************************************)
(* Model of class PendulumSimulator (src/pendulum_simulator.ipynb).        *)
(*                                                                         *)
(* Real numbers are fixed-point integers with Scale units per 1.0.  Times  *)
(* (duration, dt) are whole ticks, TicksPerSec ticks per second; the       *)
(* entries of `times` are exact rationals <<num, den>> in ticks.           *)
(* A tensor is a record [kind, dim, data]: data is the sequence of its     *)
(* rows <<theta, omega>>; dim = 1 is the shape (2,) (one row), dim = 2 the *)
(* shape (rows, 2); kind "list" is a Python list, not a torch.Tensor.      *)
(* float32/float64 rounding and device availability are not modelled.      *)
(* The instance is its __dict__ `inst` plus the class attributes.          *)
(***************************************************************************)
EXTENDS Integers, Sequences, FiniteSets, TLC

\* ---------------------------------------------------------------- bounds
MaxDuration == 5        \* durations 0..MaxDuration ticks
MaxDt == 2              \* step sizes 1..MaxDt ticks
MaxKwargs == 3          \* keyword arguments per set_params call

\* ------------------------------------------------------------- constants
Scale == 1000           \* fixed-point units per 1.0
TicksPerSec == 10       \* time ticks per second
g_default == 9810       \* self.g = 9.81
L_default == 1000       \* self.L = 1.0
m_default == 1000       \* self.m = 1.0
device_default == 77    \* code standing for the device string "mps"

\* ------------------------------------------------------ fixed-point reals
Mul(a, b) == (a * b) \div Scale
Div(a, b) == (a * Scale) \div b
Sin(x) == x - ((x * x * x) \div (6 * Scale * Scale))
Cos(x) == Scale - ((x * x) \div (2 * Scale))
DtReal(dt) == (dt * Scale) \div TicksPerSec

\* row-wise tensor arithmetic on batches (sequences of rows <<theta, omega>>)
AddRow(a, b) == <<a[1] + b[1], a[2] + b[2]>>
SclRow(c, a) == <<Mul(c, a[1]), Mul(c, a[2])>>
RECURSIVE Add(_, _)
Add(a, b) ==
    IF a = <<>> THEN <<>>
    ELSE <<AddRow(Head(a), Head(b))>> \o Add(Tail(a), Tail(b))
RECURSIVE Scl(_, _)
Scl(c, a) ==
    IF a = <<>> THEN <<>> ELSE <<SclRow(c, Head(a))>> \o Scl(c, Tail(a))
RECURSIVE Zeros(_)
Zeros(rows) == IF rows = 0 THEN <<>> ELSE <<<<0, 0>>>> \o Zeros(rows - 1)

\* ------------------------------------------------------------- the object
ClassAttrs == {"__init__", "set_params", "dynamics", "rk4_step", "simulate",
               "compute_cartesian_coords", "compute_energy"}
ParamFields == {"g", "L", "m"}

\* __init__: the instance __dict__ after construction
init_dict == [k \in {"device", "g", "L", "m"} |->
                 CASE k = "device" -> device_default
                   [] k = "g" -> g_default
                   [] k = "L" -> L_default
                   [] OTHER -> m_default]

hasattr(d, key) == key \in DOMAIN d \/ key \in ClassAttrs
setattr(d, key, value) ==
    [x \in DOMAIN d \cup {key} |-> IF x = key THEN value ELSE d[x]]
\* self.<name>(...) finds the method unless an instance attribute shadows it
Callable(d, name) == name \in ClassAttrs /\ name \notin DOMAIN d

NoErr == [type |-> "none", key |-> ""]
\* ValueError(f"parameter '{key}' invalid.")
ValueError(key) == [type |-> "ValueError", key |-> key]
TypeError(what) == [type |-> "TypeError", key |-> what]

\* validate every key first, then apply all or nothing
set_params_atomic(d, kw) ==
    LET bad == {j \in DOMAIN kw : ~hasattr(d, kw[j][1])}
        first == CHOOSE j \in bad : \A l \in bad : j <= l
    IN IF bad = {}
       THEN [inst |-> [x \in DOMAIN d \cup {kw[j][1] : j \in DOMAIN kw} |->
                          IF \E j \in DOMAIN kw : kw[j][1] = x
                          THEN kw[CHOOSE j \in DOMAIN kw : kw[j][1] = x][2]
                          ELSE d[x]],
             err |-> NoErr]
       ELSE [inst |-> d, err |-> ValueError(kw[first][1])]

\* setattr without the hasattr test
RECURSIVE set_params_unchecked(_, _)
set_params_unchecked(d, kw) ==
    IF kw = <<>> THEN [inst |-> d, err |-> NoErr]
    ELSE set_params_unchecked(setattr(d, Head(kw)[1], Head(kw)[2]), Tail(kw))

\* set_params: the for-loop over kwargs.items(), stopping at the raise
RECURSIVE set_params(_, _)
set_params(d, kw) ==
    IF kw = <<>> THEN [inst |-> d, err |-> NoErr]
    ELSE LET key == Head(kw)[1]
             value == Head(kw)[2]
         IN IF hasattr(d, key)
            THEN set_params(setattr(d, key, value), Tail(kw))
            ELSE [inst |-> d, err |-> ValueError(key)]

\* dynamics on the rows of a tensor: cat([omega, -(g/L)*sin(theta)], dim=-1)
RECURSIVE dynamics(_, _)
dynamics(d, state) ==
    IF state = <<>> THEN <<>>
    ELSE LET theta == Head(state)[1]
             omega == Head(state)[2]
         IN <<<<omega, Mul(0 - Div(d["g"], d["L"]), Sin(theta))>>>>
              \o dynamics(d, Tail(state))

rk4_step(d, state, dt) ==
    LET h == DtReal(dt)
        k1 == dynamics(d, state)
        k2 == dynamics(d, Add(state, Scl(Mul(Scale \div 2, h), k1)))
        k3 == dynamics(d, Add(state, Scl(Mul(Scale \div 2, h), k2)))
        k4 == dynamics(d, Add(state, Scl(h, k3)))
        sum == Add(Add(k1, Scl(2 * Scale, k2)), Add(Scl(2 * Scale, k3), k4))
    IN Add(state, Scl(h \div 6, sum))

\* endpoint excluded: start + k * (end - start) / steps
linspace_open(start, end, steps) ==
    [k \in 1..steps |-> <<start * steps + (k - 1) * (end - start), steps>>]

\* torch.linspace(start, end, steps): exact rationals, [start] when steps = 1
linspace(start, end, steps) ==
    [k \in 1..steps |->
        IF steps = 1 THEN <<start, 1>>
        ELSE <<start * (steps - 1) + (k - 1) * (end - start), steps - 1>>]

\* rounding up instead of truncating
NStepsCeil(duration, dt) == (duration + dt - 1) \div dt

\* n_steps = int(duration / dt)
NSteps(duration, dt) == duration \div dt

\* initial_state.unsqueeze(0): same storage, shape (1, 2)
unsqueeze(t) == [t EXCEPT !.dim = 2]

\* compute_energy: T is computed, then self.L(...) calls a number
compute_energy(d, states) ==
    LET T == [r \in DOMAIN states |->
                 Mul(Mul(Scale \div 2, d["m"]),
                     Mul(Mul(d["L"], states[r][2]), Mul(d["L"], states[r][2])))]
    IN IF d["L"] \in Int
       THEN [err |-> TypeError("L"), ret |-> <<>>]
       ELSE [err |-> NoErr, ret |-> T]

\* ------------------------------------------------------------------ inputs
Values == {200}
Keys == {"g", "L", "device", "simulate", "nonexistent"}
States == {<<0, 0>>, <<100, 0>>, <<500, 200>>}
Tensors ==
    {[kind |-> "tensor", dim |-> 1, data |-> <<s>>] : s \in States}
      \cup {[kind |-> "tensor", dim |-> 2, data |-> <<<<100, 0>>, <<0, 300>>>>],
            [kind |-> "list", dim |-> 1, data |-> <<<<100, 0>>>>]}
TorchTensors == {t \in Tensors : t.kind = "tensor"}
NoTensor == [kind |-> "none", dim |-> 0, data |-> <<>>]

DistinctKeys(kw) == \A a, b \in DOMAIN kw : a # b => kw[a][1] # kw[b][1]
Kwargs ==
    UNION {{kw \in [1..n -> Keys \X Values] : DistinctKeys(kw)} : n \in 1..MaxKwargs}

\* simulators as configured by one earlier set_params call
Setups == {<<>>} \cup {<<<<k, v>>>> :
             k \in {"g", "L", "m", "device", "dynamics", "rk4_step", "simulate"},
             v \in Values}
InstStates == {set_params(init_dict, kw).inst : kw \in Setups}

\* ------------------------------------------------------------------- state
VARIABLES inst, pre, pc, op, kwargs, arg, tensor, duration, dt, return_tensor,
          state, i, n_steps, trajectory, times, err, ret, ret_type

vars == <<inst, pre, pc, op, kwargs, arg, tensor, duration, dt, return_tensor,
          state, i, n_steps, trajectory, times, err, ret, ret_type>>

NoCall ==
    /\ pc = "idle"
    /\ op = "__init__"
    /\ kwargs = <<>>
    /\ arg = NoTensor
    /\ tensor = NoTensor
    /\ duration = 0
    /\ dt = 1
    /\ return_tensor = TRUE
    /\ state = <<>>
    /\ i = 0
    /\ n_steps = 0
    /\ trajectory = <<>>
    /\ times = <<>>
    /\ err = NoErr
    /\ ret = <<>>
    /\ ret_type = "none"

\* a freshly constructed simulator
InitParams ==
    /\ inst = init_dict
    /\ pre = init_dict
    /\ NoCall

\* a simulator after construction and at most one set_params call
Init ==
    /\ inst \in InstStates
    /\ pre = inst
    /\ NoCall

ClearSim ==
    /\ state' = <<>>
    /\ i' = 0
    /\ n_steps' = 0
    /\ trajectory' = <<>>
    /\ times' = <<>>
    /\ duration' = 0
    /\ dt' = 1
    /\ return_tensor' = TRUE

\* sim.set_params(**kw)
SetParams ==
    /\ pc = "idle"
    /\ \E kw \in Kwargs :
         LET r == set_params(inst, kw)
         IN /\ inst' = r.inst
            /\ err' = r.err
            /\ kwargs' = kw
    /\ pre' = inst
    /\ op' = "set_params"
    /\ arg' = NoTensor
    /\ tensor' = NoTensor
    /\ ret' = <<>>
    /\ ret_type' = "none"
    /\ ClearSim
    /\ UNCHANGED pc

\* sim.dynamics(t)
Dynamics ==
    /\ pc = "idle"
    /\ \E t \in TorchTensors :
         /\ arg' = t
         /\ tensor' = t
         /\ IF Callable(inst, "dynamics")
            THEN err' = NoErr /\ ret' = dynamics(inst, t.data) /\ ret_type' = "Tensor"
            ELSE err' = TypeError("dynamics") /\ ret' = <<>> /\ ret_type' = "none"
    /\ op' = "dynamics"
    /\ pre' = inst
    /\ kwargs' = <<>>
    /\ ClearSim
    /\ UNCHANGED <<inst, pc>>

\* sim.rk4_step(t, h)
Rk4Step ==
    /\ pc = "idle"
    /\ \E t \in TorchTensors, h \in 1..MaxDt :
         /\ arg' = t
         /\ tensor' = t
         /\ IF ~Callable(inst, "rk4_step")
            THEN err' = TypeError("rk4_step") /\ ret' = <<>> /\ ret_type' = "none"
            ELSE IF ~Callable(inst, "dynamics")
            THEN err' = TypeError("dynamics") /\ ret' = <<>> /\ ret_type' = "none"
            ELSE /\ err' = NoErr
                 /\ ret' = rk4_step(inst, t.data, h)
                 /\ ret_type' = "Tensor"
    /\ op' = "rk4_step"
    /\ pre' = inst
    /\ kwargs' = <<>>
    /\ ClearSim
    /\ UNCHANGED <<inst, pc>>

\* sim.compute_energy(t)
ComputeEnergy ==
    /\ pc = "idle"
    /\ \E t \in TorchTensors :
         LET r == compute_energy(inst, t.data)
         IN /\ arg' = t
            /\ tensor' = t
            /\ err' = r.err
            /\ ret' = r.ret
            /\ ret_type' = IF r.err = NoErr THEN "Tensor" ELSE "none"
    /\ op' = "compute_energy"
    /\ pre' = inst
    /\ kwargs' = <<>>
    /\ ClearSim
    /\ UNCHANGED <<inst, pc>>

\* sim.simulate(t, dur, h, rt): everything up to the for-loop
SimulateCall ==
    /\ pc = "idle"
    /\ \E t \in Tensors, dur \in 0..MaxDuration, h \in 1..MaxDt, rt \in BOOLEAN :
         /\ arg' = t
         /\ tensor' = t
         /\ duration' = dur
         /\ dt' = h
         /\ return_tensor' = rt
         /\ IF ~Callable(inst, "simulate")
            THEN /\ err' = TypeError("simulate")
                 /\ pc' = "idle"
                 /\ state' = <<>> /\ i' = 0 /\ n_steps' = 0
                 /\ trajectory' = <<>> /\ times' = <<>>
            ELSE IF t.kind # "tensor"
            THEN \* torch.Tensor(data, dtype=..., device=...) rejects the keywords
                 /\ err' = TypeError("torch.Tensor")
                 /\ pc' = "idle"
                 /\ state' = <<>> /\ i' = 0 /\ n_steps' = 0
                 /\ trajectory' = <<>> /\ times' = <<>>
            ELSE LET initial_state == IF t.dim = 1 THEN unsqueeze(t) ELSE t
                     n == NSteps(dur, h)
                 IN /\ n_steps' = n
                    /\ trajectory' =
                         [j \in 1..(n + 1) |-> Zeros(Len(initial_state.data))]
                    /\ times' = linspace(0, dur, n + 1)
                    /\ state' = initial_state.data
                    /\ i' = 0
                    /\ err' = NoErr
                    /\ pc' = "loop"
    /\ op' = "simulate"
    /\ pre' = inst
    /\ kwargs' = <<>>
    /\ ret' = <<>>
    /\ ret_type' = "none"
    /\ UNCHANGED inst

\* the loop body with an in-place update: state += (dt/6) * (...)
SimulateStepInPlace ==
    /\ pc = "loop"
    /\ i < n_steps
    /\ IF ~Callable(inst, "rk4_step")
       THEN err' = TypeError("rk4_step") /\ pc' = "idle"
            /\ UNCHANGED <<state, i, trajectory, tensor>>
       ELSE IF ~Callable(inst, "dynamics")
       THEN err' = TypeError("dynamics") /\ pc' = "idle"
            /\ UNCHANGED <<state, i, trajectory, tensor>>
       ELSE /\ state' = rk4_step(inst, state, dt)
            /\ tensor' = [tensor EXCEPT !.data = state']
            /\ trajectory' = [trajectory EXCEPT ![i + 2] = state']
            /\ i' = i + 1
            /\ UNCHANGED <<err, pc>>
    /\ UNCHANGED <<inst, pre, op, kwargs, arg, duration, dt,
                   return_tensor, n_steps, times, ret, ret_type>>

\* one iteration of `for i in range(n_steps)`; trajectory[i+1] is entry i + 2
\* of the 1-based sequence
SimulateStep ==
    /\ pc = "loop"
    /\ i < n_steps
    /\ IF ~Callable(inst, "rk4_step")
       THEN err' = TypeError("rk4_step") /\ pc' = "idle"
            /\ UNCHANGED <<state, i, trajectory, tensor>>
       ELSE IF ~Callable(inst, "dynamics")
       THEN err' = TypeError("dynamics") /\ pc' = "idle"
            /\ UNCHANGED <<state, i, trajectory, tensor>>
       ELSE /\ state' = rk4_step(inst, state, dt)
            /\ trajectory' = [trajectory EXCEPT ![i + 2] = state']
            /\ i' = i + 1
            /\ UNCHANGED <<err, pc, tensor>>
    /\ UNCHANGED <<inst, pre, op, kwargs, arg, duration, dt,
                   return_tensor, n_steps, times, ret, ret_type>>

\* the return statement after the loop
SimulateReturn ==
    /\ pc = "loop"
    /\ i = n_steps
    /\ pc' = "idle"
    /\ ret_type' = IF return_tensor THEN "Tensor" ELSE "ndarray"
    /\ UNCHANGED <<inst, pre, op, kwargs, arg, tensor, duration, dt,
                   return_tensor, state, i, n_steps, trajectory, times, err, ret>>

Next ==
    \/ Dynamics
    \/ Rk4Step
    \/ ComputeEnergy
    \/ SimulateCall
    \/ SimulateStep
    \/ SimulateReturn

Spec == Init /\ [][Next]_vars

NextParams == SetParams

SpecParams == InitParams /\ [][NextParams]_vars

\* ------------------------------------------------------------ properties
\* simulate has returned normally
SimReturned == op = "simulate" /\ pc = "idle" /\ err = NoErr
\* the argument as simulate sees it after batch promotion
PromotedArg == IF arg.dim = 1 THEN unsqueeze(arg) ELSE arg
\* the mathematical floor of a / b for a >= 0, b > 0
Floor(a, b) == CHOOSE q \in 0..a : q * b <= a /\ a < (q + 1) * b
\* the rational r = <<num, den>> equals the integer x
RatIs(r, x) == r[1] = x * r[2]
KeyOf(j) == kwargs[j][1]
ValOf(j) == kwargs[j][2]
\* the keys of the last set_params call that were no attribute when it began
BadKeys == {j \in DOMAIN kwargs : KeyOf(j) \notin DOMAIN pre \cup ClassAttrs}
FirstBad == CHOOSE j \in BadKeys : \A l \in BadKeys : j <= l
\* attribute k is the same in dictionaries d and e
SameAttr(d, e, k) ==
    /\ (k \in DOMAIN d) = (k \in DOMAIN e)
    /\ k \in DOMAIN d => d[k] = e[k]

\* C1: whenever simulate returns, entry 0 of the trajectory equals the
\* batch-promoted initial state (violated: entry 0 is left at zero).
C1_TrajectoryStartsAtInitialState ==
    SimReturned => trajectory[1] = PromotedArg.data

\* C2: whenever simulate returns, times and trajectory have the same length
\* floor(duration/dt) + 1 and the loop has run floor(duration/dt) steps.
C2_Lengths ==
    SimReturned =>
        /\ Len(times) = Len(trajectory)
        /\ Len(trajectory) = Floor(duration, dt) + 1
        /\ i = Floor(duration, dt)
C2_Witness ==
    SimReturned /\ n_steps >= 2 /\ duration % dt # 0

\* C3: in the returned trajectory every entry i+1 is one RK4 step from
\* entry i (violated at i = 0: entry 1 steps from the initial state, entry 0
\* holds zeros).
C3_EachEntryStepsFromPrevious ==
    SimReturned =>
        \A j \in 1..n_steps : trajectory[j + 1] = rk4_step(inst, trajectory[j], dt)

\* C4 as stated: times[0] == 0 and times[-1] == duration for every
\* duration >= 0, also when duration < dt.
C4_TimesEndAtDuration ==
    SimReturned =>
        /\ RatIs(times[1], 0)
        /\ RatIs(times[Len(times)], duration)
\* C4 amended: times[0] == 0; times[-1] == duration whenever at least one
\* step is taken; with no step the single sample is 0.
C4_TimesEndpoints ==
    SimReturned =>
        /\ RatIs(times[1], 0)
        /\ n_steps >= 1 => RatIs(times[Len(times)], duration)
        /\ n_steps = 0 => Len(times) = 1 /\ RatIs(times[Len(times)], 0)
C4_Witness ==
    SimReturned /\ n_steps = 0 /\ duration > 0

\* C5: every returned time before the last is the time the integrator
\* stepped to, times[i] == i*dt for i < nSteps (violated: the samples are
\* spaced duration/nSteps apart).
C5_TimesAreStepTimes ==
    SimReturned => \A j \in 0..(n_steps - 1) : RatIs(times[j + 1], j * dt)

\* C6: a set_params call with a key that is no attribute raises an error
\* naming the first such key, and no such key becomes an attribute.
C6_UnknownKeyRaises ==
    (op = "set_params" /\ BadKeys # {}) =>
        /\ err = ValueError(KeyOf(FirstBad))
        /\ \A j \in BadKeys : KeyOf(j) \notin DOMAIN inst
C6_Witness ==
    op = "set_params" /\ BadKeys # {} /\ Len(kwargs) >= 2 /\ FirstBad >= 2

\* C7: set_params rejects every key other than g, L and m, so the device
\* and the methods stay as constructed (violated: any existing attribute is
\* overwritten, a method name included).
C7_OnlyParamFieldsWritable ==
    /\ op = "set_params" =>
         ((\E j \in DOMAIN kwargs : KeyOf(j) \notin ParamFields)
             => err.type = "ValueError")
    /\ inst["device"] = device_default
    /\ DOMAIN inst \cap ClassAttrs = {}

\* C8: compute_energy returns E = 0.5*m*(L*omega)^2 + m*g*L*(1-cos(theta))
\* for each row, without raising (violated: it raises on self.L(...)).
EnergyOf(d, s) ==
    Mul(Mul(Scale \div 2, d["m"]), Mul(Mul(d["L"], s[2]), Mul(d["L"], s[2])))
      + Mul(Mul(Mul(d["m"], d["g"]), d["L"]), Scale - Cos(s[1]))
C8_EnergyReturned ==
    op = "compute_energy" =>
        /\ err = NoErr
        /\ Len(ret) = Len(arg.data)
        /\ \A r \in DOMAIN ret : ret[r] = EnergyOf(inst, arg.data[r])

\* C9: when set_params fails on an unknown key, every key before it has
\* been overwritten and stays so, and no key after it is applied.
C9_PartialUpdate ==
    (op = "set_params" /\ err.type = "ValueError") =>
        /\ BadKeys # {}
        /\ \A j \in 1..(FirstBad - 1) :
             KeyOf(j) \in DOMAIN inst /\ inst[KeyOf(j)] = ValOf(j)
        /\ \A j \in (FirstBad + 1)..Len(kwargs) : SameAttr(pre, inst, KeyOf(j))
C9_Witness ==
    /\ op = "set_params" /\ err.type = "ValueError"
    /\ Len(kwargs) = 3 /\ FirstBad = 2
    /\ KeyOf(1) \in DOMAIN pre /\ pre[KeyOf(1)] # ValOf(1)
    /\ KeyOf(3) \in DOMAIN pre /\ pre[KeyOf(3)] # ValOf(3)

\* C10: dynamics, rk4_step and simulate leave the caller's tensor and the
\* attributes of the simulator as they were, and a trajectory entry written
\* by one loop step is not changed by a later one.
C10_InputsKept ==
    op \in {"dynamics", "rk4_step", "simulate"} => tensor = arg /\ inst = pre
C10_WrittenKept ==
    pc = "loop" => \A j \in 2..(i + 1) : trajectory'[j] = trajectory[j]
C10_NoSideEffects == [](C10_InputsKept) /\ [][C10_WrittenKept]_vars
C10_Witness ==
    /\ SimReturned /\ n_steps >= 2
    /\ trajectory[2] # trajectory[3]
    /\ trajectory[2] # arg.data
====
